---- MODULE Spec2Model ----
(***************************************************************************)
(* A model of the Postgres connection layer of sqlx-core: the startup      *)
(* handshake (postgres/connection.rs), the extended-query executor         *)
(* (postgres/executor.rs), the cursor (postgres/cursor.rs), the row view   *)
(* (postgres/row.rs), the backend tag decoder (protocol/message.rs) and    *)
(* the DataRow decoder (protocol/data_row.rs).                             *)
(*                                                                         *)
(* The server and the transport are the environment: the server answers    *)
(* every Sync it receives with one response script, and during startup it  *)
(* may send any frame.                                                     *)
(***************************************************************************)
EXTENDS Integers, Sequences, FiniteSets, TLC

\* ------------------------------------------------------------------ bounds

\* next_statement_id is a u32 (connection.rs:84) and wraps at 2^32; the model
\* wraps it at IdModulus so that the wrap is reachable.
IdModulus == 4
\* At most this many query cycles are written, on the wire or answered and
\* not yet fully read, at any time.
MaxCycles == 3
\* The handshake reads at most this many frames that keep it looping.
MaxStartupFrames == 3
\* try_get is called with indexes 0 .. MaxIndex.
MaxIndex == 3
\* The rows whose decoding is checked have at most this many columns, and
\* their payloads lose at most this many bytes at the end.
MaxCols == 3
MaxCut == 2
\* SslRequest::encode appends to a Vec<u8> that already holds up to
\* MaxPrefix bytes.
MaxPrefix == 3
\* The server sends up to MaxSkips ParseComplete and BindComplete frames
\* ahead of the frame that decides first().
MaxSkips == 3

\* ------------------------------------------------------------------- bytes

Bytes == 0..255

\* ------------------------------------------------- protocol/message.rs

\* Message::try_from(u8): the message kind of a one-byte backend tag, or
\* UnknownMessage for the `id =>` arm that returns a protocol error.
UnknownMessage == "Err(unknown message)"

MessageFromTag_DefaultsToResponse(type_) ==
    CASE type_ \in {78, 69} -> "Response"
      [] type_ = 68 -> "DataRow"
      [] type_ = 83 -> "ParameterStatus"
      [] type_ = 90 -> "ReadyForQuery"
      [] type_ = 82 -> "Authentication"
      [] type_ = 75 -> "BackendKeyData"
      [] type_ = 67 -> "CommandComplete"
      [] type_ = 65 -> "NotificationResponse"
      [] type_ = 49 -> "ParseComplete"
      [] type_ = 50 -> "BindComplete"
      [] type_ = 51 -> "CloseComplete"
      [] type_ = 110 -> "NoData"
      [] type_ = 115 -> "PortalSuspended"
      [] type_ = 116 -> "ParameterDescription"
      [] type_ = 84 -> "RowDescription"
      [] OTHER -> "Response"

MessageFromTag(type_) ==
    CASE type_ \in {78, 69} -> "Response"               \* b'N' | b'E'
      [] type_ = 68 -> "DataRow"                        \* b'D'
      [] type_ = 83 -> "ParameterStatus"                \* b'S'
      [] type_ = 90 -> "ReadyForQuery"                  \* b'Z'
      [] type_ = 82 -> "Authentication"                 \* b'R'
      [] type_ = 75 -> "BackendKeyData"                 \* b'K'
      [] type_ = 67 -> "CommandComplete"                \* b'C'
      [] type_ = 65 -> "NotificationResponse"           \* b'A'
      [] type_ = 49 -> "ParseComplete"                  \* b'1'
      [] type_ = 50 -> "BindComplete"                   \* b'2'
      [] type_ = 51 -> "CloseComplete"                  \* b'3'
      [] type_ = 110 -> "NoData"                        \* b'n'
      [] type_ = 115 -> "PortalSuspended"               \* b's'
      [] type_ = 116 -> "ParameterDescription"          \* b't'
      [] type_ = 84 -> "RowDescription"                 \* b'T'
      [] OTHER -> UnknownMessage

\* ------------------------------------------------------ io::Buf on &[u8]

\* What is left of a buffer after its first n bytes.
BufDrop(buf, n) == SubSeq(buf, n + 1, Len(buf))

\* buf.get_u16::<NetworkEndian>() of a buffer that holds two bytes.
GetU16(buf) == buf[1] * 256 + buf[2]

\* buf.get_i32::<NetworkEndian>() of a buffer that holds four bytes: the
\* big-endian two's complement value.
GetI32(buf) ==
    IF buf[1] < 128
      THEN ((buf[1] * 256 + buf[2]) * 256 + buf[3]) * 256 + buf[4]
      ELSE -((((255 - buf[1]) * 256 + (255 - buf[2])) * 256
                + (255 - buf[3])) * 256 + (255 - buf[4])) - 1

\* buf.advance(cnt) with cnt = size as usize: it returns nothing, so it
\* cannot report an error; past the end of the slice (or with a negative
\* size, which the cast makes huge) it is a bounds failure.
AdvanceFails(buf, size) == size < 0 \/ size > Len(buf)

\* ------------------------------------------------ protocol/data_row.rs

\* Option<Range<u32>>: None, or the pair <<start, end>>.
None == <<>>
Some(start, end) == <<start, end>>

\* `index + (size as u32)` and `index += (size as u32) + 4` on u32: a size
\* below -1 casts to 2^32 + size, and the sums leave the u32 range exactly
\* when index + size + 4 >= 0.
RangeOverflows(index, size) == size < -1 /\ index + size + 4 >= 0

\* The loop of DataRow::read. The result is [kind, values, overflow]: kind is
\* "ok", "err" (a get_* on a buffer that is too short, returned with `?`) or
\* "panic"; values is the scratch index as the loop leaves it.
RECURSIVE ReadColumns(_, _, _, _)
ReadColumns(buf, len, values, index) ==
    IF Len(values) >= len
      THEN [kind |-> "ok", values |-> values, overflow |-> FALSE]
    ELSE IF Len(buf) < 4
      THEN [kind |-> "err", values |-> values, overflow |-> FALSE]
    ELSE LET size == GetI32(buf)
             rest == BufDrop(buf, 4)
         IN IF size = -1
              THEN ReadColumns(rest, len, Append(values, None), index + 4)
            ELSE IF RangeOverflows(index, size)
              \* debug builds panic in the addition; release builds wrap
              \* and go on to advance(), which fails on the huge count
              THEN [kind |-> "panic", values |-> values, overflow |-> TRUE]
            ELSE IF AdvanceFails(rest, size)
              THEN [kind |-> "panic", values |-> values, overflow |-> FALSE]
            ELSE ReadColumns(BufDrop(rest, size), len,
                             Append(values, Some(index, index + size)),
                             index + size + 4)

\* DataRow::read(buf, values): [kind, len, values, overflow].
DataRowRead(buf, values) ==
    IF Len(buf) < 2
      THEN [kind |-> "err", len |-> 0, values |-> values, overflow |-> FALSE]
      ELSE LET len == GetU16(buf)
               r == ReadColumns(BufDrop(buf, 2), len, <<>>, 6)
           IN [kind |-> r.kind, len |-> len, values |-> r.values,
               overflow |-> r.overflow]

\* DataRow::get(buf, values, index): <<"None">>, <<"Some", bytes>>, or
\* <<"Panic">> where the indexing of values or of buf is out of bounds.
GetNone == <<"None">>
GetSome(bytes) == <<"Some", bytes>>
GetPanic == <<"Panic">>

DataRowGet_SliceOffByOne(buf, values, index) ==
    IF index >= Len(values) THEN GetPanic
    ELSE LET range == values[index + 1]
         IN IF range = None THEN GetNone
            ELSE IF range[1] > range[2] \/ range[2] > Len(buf) THEN GetPanic
            ELSE GetSome(SubSeq(buf, range[1], range[2]))

DataRowGet(buf, values, index) ==
    IF index >= Len(values) THEN GetPanic
    ELSE LET range == values[index + 1]
         IN IF range = None THEN GetNone
            ELSE IF range[1] > range[2] \/ range[2] > Len(buf) THEN GetPanic
            ELSE GetSome(SubSeq(buf, range[1] + 1, range[2]))

\* DataRow::len
DataRowLen(data) == data.len

\* ------------------------------------------- the server's DataRow frames

\* A column as the server holds it: Null, a byte string, or (malformed) a
\* bare length field below -1.
Null == <<-1>>
IsBadColumn(c) == Len(c) = 1 /\ c[1] < -1

\* The byte of n (>= 0) at weight w = 256^k.
ByteAt(n, w) == (n \div w) % 256

PutU16(n) == <<ByteAt(n, 256), ByteAt(n, 1)>>

PutI32(n) ==
    IF n >= 0
      THEN <<ByteAt(n, 16777216), ByteAt(n, 65536), ByteAt(n, 256), ByteAt(n, 1)>>
      ELSE LET m == -n - 1
           IN <<255 - ByteAt(m, 16777216), 255 - ByteAt(m, 65536),
                255 - ByteAt(m, 256), 255 - ByteAt(m, 1)>>

EncodeColumn(c) ==
    IF Len(c) = 1 /\ c[1] < 0 THEN PutI32(c[1]) ELSE PutI32(Len(c)) \o c

RECURSIVE EncodeColumns(_)
EncodeColumns(cols) ==
    IF cols = <<>> THEN <<>>
    ELSE EncodeColumn(Head(cols)) \o EncodeColumns(Tail(cols))

\* The payload of a DataRow frame: column count, then each column.
EncodeRow(cols) == PutU16(Len(cols)) \o EncodeColumns(cols)

\* What a server puts in a DataRow frame: the columns, how many bytes are
\* missing at the end of the payload, and the bytes that follow it.
RowInput(cols, cut, extra) == [cols |-> cols, cut |-> cut, extra |-> extra]
NoInput == RowInput(<<>>, 0, <<>>)

Payload(input) ==
    LET p == EncodeRow(input.cols)
    IN SubSeq(p, 1, Len(p) - input.cut) \o input.extra

\* The columns of the rows whose decoding is checked: NULL, empty, one and
\* two bytes, and two length fields below -1.
RowColumns == {Null, <<>>, <<49>>, <<50, 51>>, <<-2>>, <<-256>>}

RowsUpTo(n) == UNION {[1..k -> RowColumns] : k \in 0..n}

\* A payload is valid when it is exactly the encoding of columns none of
\* which has a length below -1.
ValidColumns(cols) == \A i \in 1..Len(cols) : ~IsBadColumn(cols[i])
ValidInput(input) ==
    ValidColumns(input.cols) /\ input.cut = 0 /\ input.extra = <<>>

\* A payload is malformed when it ends before the columns it declares do,
\* or declares a column length below -1.
MalformedInput(input) == ~ValidColumns(input.cols) \/ input.cut > 0

RowInputs ==
    {RowInput(cols, cut, <<>>) : cols \in RowsUpTo(MaxCols), cut \in 0..MaxCut}
    \cup {RowInput(cols, 0, <<0>>) : cols \in RowsUpTo(MaxCols)}

\* ---------------------------------------------------------------- state

VARIABLES
    phase,                \* "startup", "failed", "open" or "panicked"
    hsLog,                \* the frames startup() has read in its loop
    lastTag,              \* the tag byte of the frame stream.read() read last
    lastMsg,              \* what Message::try_from made of lastTag
    is_ready,             \* PgConnection.is_ready
    next_statement_id,    \* PgConnection.next_statement_id
    data_row_values_buf,  \* PgConnection.data_row_values_buf
    wbuf,                 \* the stream's write buffer: messages written, not flushed
    wire,                 \* messages flushed and not yet processed by the server
    inbox,                \* frames the server has sent and the client has not read
    buffer,               \* stream.buffer(): the payload of the frame read last
    cursor,               \* the live PgCursor, or NoCursor
    pc,                   \* where first() is: "idle", "wait_for_ready", "flush", "read"
    row,                  \* the live PgRow, or NoRow
    ret,                  \* what startup() or first() returned last
    afterError,           \* the first() before the last one returned a server error
    issued,               \* the statement ids write_prepare has handed out
    overflow_checks,      \* the build panics on integer overflow (debug) or wraps
    getResult,            \* what try_get returned last on the live row
    sent,                 \* what the server put in the frame read last
    transport,            \* the socket: "up", "broken" (I/O fails) or "shutdown"
    lenResult,            \* what len() and is_empty() returned last on the live row
    out                   \* the Vec<u8> SslRequest::encode appends to

vars == <<phase, hsLog, lastTag, lastMsg, is_ready, next_statement_id,
          data_row_values_buf, wbuf, wire, inbox, buffer, cursor, pc, row,
          ret, afterError, issued, overflow_checks, getResult, sent,
          transport, lenResult, out>>

connVars == <<is_ready, next_statement_id, data_row_values_buf>>
streamVars == <<wbuf, wire, inbox, buffer, lastTag, lastMsg, sent>>

NoTag == 0 - 1
NoCursor == [statement |-> -1]
NoRow == [len |-> -1]
NoGet == <<>>
NoLen == <<>>
NoCycle == 0 - 1

\* ---------------------------------------------------------------- errors

\* The value a function returns: nothing yet, a Row, end of results, or
\* an error of some kind. `what` names the message or condition, and for a
\* result that a response frame decided, `cyc` is the query cycle the frame
\* answers and `statement` the statement id of the cursor.
Pending == [tag |-> "Pending", kind |-> "", what |-> "", cyc |-> NoCycle, statement |-> -1]
Connected == [tag |-> "Ok", kind |-> "", what |-> "PgConnection", cyc |-> NoCycle, statement |-> -1]
RowReturned(cyc, statement) ==
    [tag |-> "Row", kind |-> "", what |-> "DataRow", cyc |-> cyc, statement |-> statement]

\* protocol_err!(...): every call site builds the same kind of error.
ProtocolErr(what, cyc, statement) ==
    [tag |-> "Err", kind |-> "Protocol", what |-> what, cyc |-> cyc, statement |-> statement]

\* `?` on a failed stream.read(), flush() or shutdown(): the std::io::Error
\* converted into the crate's error.
IoErr(cyc, statement) ==
    [tag |-> "Err", kind |-> "Io", what |-> "io", cyc |-> cyc, statement |-> statement]

\* A panic that unwinds out of the call.
Panicked(what) ==
    [tag |-> "Panic", kind |-> "", what |-> what, cyc |-> NoCycle, statement |-> -1]

\* close() returned Ok(()).
Closed == [tag |-> "Ok", kind |-> "", what |-> "closed", cyc |-> NoCycle, statement |-> -1]

\* ------------------------------------------------------------------ stream

\* Frames and messages. A frame is its tag byte and its payload; `cyc` is
\* the query cycle it answers and `sent` what the server encoded in it.
RawFrame(tag, payload, cyc, input) ==
    [tag |-> tag, payload |-> payload, cyc |-> cyc, sent |-> input]
PlainFrame(tag, cyc) == RawFrame(tag, <<>>, cyc, NoInput)
DataRowFrame(input, cyc) == RawFrame(68, Payload(input), cyc, input)
AuthFrame(code) == RawFrame(82, PutI32(code), NoCycle, NoInput)
Frame(tag, input, cyc) ==
    IF tag = 68 THEN DataRowFrame(input, cyc) ELSE PlainFrame(tag, cyc)

Parse(id) == [type |-> "Parse", statement |-> id]
Bind(portal, id) ==
    [type |-> "Bind", portal |-> portal, statement |-> id,
     formats |-> <<"Binary">>, result_formats |-> <<"Binary">>]
Execute(portal, limit) == [type |-> "Execute", portal |-> portal, limit |-> limit]
Sync == [type |-> "Sync"]
Terminate == [type |-> "Terminate"]

NumSync(msgs) == Cardinality({i \in 1..Len(msgs) : msgs[i].type = "Sync"})
NumReady(frames) == Cardinality({i \in 1..Len(frames) : frames[i].tag = 90})

\* Query cycles written, on the wire, or answered and not read to the end.
CyclesHeld == NumSync(wbuf) + NumSync(wire) + NumReady(inbox)

\* ----------------------------------------------------- connection.rs

\* Authentication::read(stream.buffer()): the request named by the i32 code
\* at the start of the payload.
AuthenticationRead(buf) ==
    CASE GetI32(buf) = 0 -> "Ok"
      [] GetI32(buf) = 3 -> "CleartextPassword"
      [] GetI32(buf) = 5 -> "Md5Password"
      [] OTHER -> "Sasl"

\* The message kinds startup() reads and does nothing about.
InformationalKinds_WithNotification ==
    {"BackendKeyData", "ParameterStatus", "NotificationResponse"}

InformationalKinds == {"BackendKeyData", "ParameterStatus"}

\* PgConnection::new after startup() returned Ok.
NewIsReady_NotReady == FALSE

NewIsReady == TRUE
NewNextStatementId == 1
NewValuesBuf == <<>>

\* What stream.read() leaves unread. A frame whose tag is unrecognized is
\* fatal to the connection: the framing cannot be trusted past it, so the
\* stream never gets beyond that frame and every later read fails on it.
AfterRead_SkipsUnknown(frames) == Tail(frames)

AfterRead(frames) ==
    IF MessageFromTag(Head(frames).tag) = UnknownMessage
      THEN frames
      ELSE Tail(frames)

\* stream.read(): take the next frame, keep its payload in the buffer.
StreamRead ==
    /\ transport = "up"
    /\ inbox # <<>>
    /\ lastTag' = Head(inbox).tag
    /\ lastMsg' = MessageFromTag(Head(inbox).tag)
    /\ buffer' = Head(inbox).payload
    /\ sent' = Head(inbox).sent
    /\ inbox' = AfterRead(inbox)
    /\ UNCHANGED <<wbuf, wire>>

\* The message kind of the frame stream.read() is about to return.
NextMsg == MessageFromTag(Head(inbox).tag)

\* startup(): one turn of the loop reads a frame.
StartupRead ==
    /\ phase = "startup"
    /\ StreamRead
    /\ UNCHANGED <<cursor, pc, row, afterError, issued, overflow_checks, transport, lenResult, out, getResult>>

\* stream.read() fails on an unknown tag and `?` returns the error.
StartupReadError ==
    /\ StartupRead
    /\ NextMsg = UnknownMessage
    /\ phase' = "failed"
    /\ ret' = ProtocolErr("unknown message", NoCycle, -1)
    /\ hsLog' = Append(hsLog, UnknownMessage)
    /\ UNCHANGED connVars

\* Message::Authentication: Ok goes round the loop, any other request returns
\* protocol_err!("requested unsupported authentication").
StartupAuthentication ==
    /\ StartupRead
    /\ NextMsg = "Authentication"
    /\ IF AuthenticationRead(Head(inbox).payload) = "Ok"
         THEN /\ hsLog' = Append(hsLog, "Authentication(Ok)")
              /\ UNCHANGED <<phase, ret>>
         ELSE /\ phase' = "failed"
              /\ ret' = ProtocolErr("requested unsupported authentication",
                                    NoCycle, -1)
              /\ hsLog' = Append(hsLog, "Authentication(other)")
    /\ UNCHANGED connVars

\* Message::BackendKeyData and Message::ParameterStatus: do nothing.
StartupInformational ==
    /\ StartupRead
    /\ NextMsg \in InformationalKinds
    /\ hsLog' = Append(hsLog, NextMsg)
    /\ UNCHANGED <<phase, ret>>
    /\ UNCHANGED connVars

\* Message::ReadyForQuery: break, startup() returns Ok(()) and
\* PgConnection::new builds the connection.
StartupReadyForQuery ==
    /\ StartupRead
    /\ NextMsg = "ReadyForQuery"
    /\ hsLog' = Append(hsLog, NextMsg)
    /\ phase' = "open"
    /\ ret' = Connected
    /\ is_ready' = NewIsReady
    /\ next_statement_id' = NewNextStatementId
    /\ data_row_values_buf' = NewValuesBuf

\* type_ => return Err(protocol_err!("unexpected message")).
StartupUnexpected ==
    /\ StartupRead
    /\ NextMsg \notin InformationalKinds \cup
           {"Authentication", "ReadyForQuery", UnknownMessage}
    /\ phase' = "failed"
    /\ ret' = ProtocolErr("unexpected message", NoCycle, -1)
    /\ hsLog' = Append(hsLog, NextMsg)
    /\ UNCHANGED connVars

\* The connection PgConnection::new returns, before any query.
Init ==
    /\ phase = "open"
    /\ hsLog = <<>>
    /\ lastTag = 90
    /\ lastMsg = "ReadyForQuery"
    /\ is_ready = NewIsReady
    /\ next_statement_id = NewNextStatementId
    /\ data_row_values_buf = NewValuesBuf
    /\ wbuf = <<>>
    /\ wire = <<>>
    /\ inbox = <<>>
    /\ buffer = <<>>
    /\ cursor = NoCursor
    /\ pc = "idle"
    /\ row = NoRow
    /\ ret = Connected
    /\ afterError = FALSE
    /\ issued = {}
    /\ overflow_checks \in BOOLEAN
    /\ getResult = NoGet
    /\ sent = NoInput
    /\ transport = "up"
    /\ lenResult = NoLen
    /\ out = <<>>

\* ------------------------------------------------------- executor.rs

\* The connection is mutably borrowed by a live PgCursor (`&'a mut
\* PgConnection`) or borrowed by a live PgRow (`&'a PgConnection`); execute
\* takes `&'e mut PgConnection`, so it cannot be called meanwhile.
Borrowed_CursorOnly == cursor # NoCursor

Borrowed == cursor # NoCursor \/ row # NoRow

\* self.next_statement_id += 1 on the u32 counter.
NextIdOverflows(id) == id + 1 >= IdModulus
WrappingNext(id) == (id + 1) % IdModulus

\* The messages execute writes for statement id: write_prepare,
\* write_bind("", id), write_execute("", 0), write_sync.
ExecuteMessages(id) == <<Parse(id), Bind("", id), Execute("", 0), Sync>>

\* execute(query) with arguments Some(..): write_prepare, write_bind,
\* write_execute, write_sync, and the cursor. In a build with overflow
\* checks the increment of the last id panics before Parse is written.
ExecuteQuery ==
    /\ phase = "open"
    /\ ~Borrowed
    /\ CyclesHeld < MaxCycles
    /\ LET id == next_statement_id
       IN IF NextIdOverflows(id) /\ overflow_checks
            THEN /\ phase' = "panicked"
                 /\ UNCHANGED <<next_statement_id, wbuf, cursor, issued>>
            ELSE /\ next_statement_id' = WrappingNext(id)
                 /\ wbuf' = wbuf \o ExecuteMessages(id)
                 /\ cursor' = [statement |-> id]
                 /\ issued' = issued \cup {id}
                 /\ UNCHANGED phase
    /\ UNCHANGED <<hsLog, lastTag, lastMsg, is_ready, data_row_values_buf, wire,
                   inbox, buffer, pc, row, ret, afterError, overflow_checks, transport, lenResult, out,
                   getResult, sent>>

\* What execute has written to the stream when it reaches
\* arguments.unwrap(): into_parts() and the unwrap come first, write_prepare
\* and its Parse after them.
WrittenBeforeUnwrap_PrepareFirst(id) == <<Parse(id)>>

WrittenBeforeUnwrap(id) == <<>>

\* execute(query) with arguments None: arguments.unwrap() panics.
ExecuteNoArguments ==
    /\ phase = "open"
    /\ ~Borrowed
    /\ phase' = "panicked"
    /\ wbuf' = wbuf \o WrittenBeforeUnwrap(next_statement_id)
    /\ ret' = Panicked("Option::unwrap() on a None value")
    /\ UNCHANGED <<hsLog, connVars, lastTag, lastMsg, wire, inbox, buffer, sent,
                   cursor, pc, row, afterError, issued, overflow_checks,
                   transport, lenResult, out, getResult>>

\* ---------------------------------------------------------- cursor.rs

\* A PgCursor is dropped without first() having been called on it.
DropCursor ==
    /\ phase = "open"
    /\ cursor # NoCursor
    /\ pc = "idle"
    /\ cursor' = NoCursor
    /\ UNCHANGED <<phase, hsLog, connVars, streamVars, pc, row, ret, afterError,
                   issued, overflow_checks, transport, lenResult, out, getResult>>

\* cursor.first() is called and polled.
FirstCall ==
    /\ phase = "open"
    /\ cursor # NoCursor
    /\ pc = "idle"
    /\ pc' = "wait_for_ready"
    /\ UNCHANGED <<phase, hsLog, connVars, streamVars, cursor, row, ret,
                   afterError, issued, overflow_checks, transport, lenResult, out, getResult>>

\* first() returns `result`; the cursor is consumed.
FirstReturns(result) ==
    /\ ret' = result
    /\ afterError' = (ret.tag = "Err" /\ ret.what = "Response")
    /\ cursor' = NoCursor
    /\ pc' = "idle"

\* wait_for_ready with is_ready set: nothing to wait for.
WaitForReadySkip ==
    /\ phase = "open"
    /\ pc = "wait_for_ready"
    /\ is_ready
    /\ pc' = "flush"
    /\ UNCHANGED <<phase, hsLog, connVars, streamVars, cursor, row, ret,
                   afterError, issued, overflow_checks, transport, lenResult, out, getResult>>

\* wait_for_ready, one turn of the loop: ReadyForQuery sets is_ready and
\* leaves the loop, any other message is dropped, a read error is returned.
WaitForReadyRead ==
    /\ phase = "open"
    /\ pc = "wait_for_ready"
    /\ ~is_ready
    /\ StreamRead
    /\ LET msg == NextMsg
       IN IF msg = UnknownMessage
            THEN /\ FirstReturns(ProtocolErr("unknown message", Head(inbox).cyc,
                                             cursor.statement))
                 /\ UNCHANGED is_ready
          ELSE IF msg = "ReadyForQuery"
            THEN /\ is_ready' = TRUE
                 /\ pc' = "flush"
                 /\ UNCHANGED <<cursor, ret, afterError>>
          ELSE UNCHANGED <<is_ready, pc, cursor, ret, afterError>>
    /\ UNCHANGED <<phase, hsLog, next_statement_id, data_row_values_buf, row,
                   issued, overflow_checks, transport, lenResult, out, getResult>>

\* first(): stream.flush() puts the whole write buffer on the wire, then
\* is_ready = false.
FirstFlush ==
    /\ phase = "open"
    /\ pc = "flush"
    /\ transport = "up"
    /\ wire' = wire \o wbuf
    /\ wbuf' = <<>>
    /\ is_ready' = FALSE
    /\ pc' = "read"
    /\ UNCHANGED <<phase, hsLog, lastTag, lastMsg, next_statement_id,
                   data_row_values_buf, inbox, buffer, cursor, row, ret,
                   afterError, issued, overflow_checks, transport, lenResult, out, getResult, sent>>

\* first(), the read loop: the messages of the arm that ignores them.
SkippedKinds_ParseCompleteOnly == {"ParseComplete"}

SkippedKinds == {"ParseComplete", "BindComplete"}

\* first(), the read loop: ParseComplete | BindComplete are ignored.
FirstSkip ==
    /\ phase = "open"
    /\ pc = "read"
    /\ StreamRead
    /\ NextMsg \in SkippedKinds
    /\ UNCHANGED <<phase, hsLog, connVars, cursor, pc, row, ret, afterError,
                   issued, overflow_checks, transport, lenResult, out, getResult>>

\* first(), the read loop: stream.read() fails on an unknown tag.
FirstReadError ==
    /\ phase = "open"
    /\ pc = "read"
    /\ StreamRead
    /\ NextMsg = UnknownMessage
    /\ FirstReturns(ProtocolErr("unknown message", Head(inbox).cyc, cursor.statement))
    /\ UNCHANGED <<phase, hsLog, connVars, row, issued, overflow_checks, transport, lenResult, out, getResult>>

\* first(), the read loop: message => Err(protocol_err!("unexpected message")).
FirstUnexpected ==
    /\ phase = "open"
    /\ pc = "read"
    /\ StreamRead
    /\ NextMsg \notin SkippedKinds \cup {"DataRow", UnknownMessage}
    /\ FirstReturns(ProtocolErr(NextMsg, Head(inbox).cyc,
                                cursor.statement))
    /\ UNCHANGED <<phase, hsLog, connVars, row, issued, overflow_checks, transport, lenResult, out, getResult>>

\* first(), the read loop: Message::DataRow is decoded in place with
\* DataRow::read and returned as a PgRow that borrows the connection.
FirstDataRow ==
    /\ phase = "open"
    /\ pc = "read"
    /\ StreamRead
    /\ NextMsg = "DataRow"
    /\ LET f == Head(inbox)
           r == DataRowRead(f.payload, data_row_values_buf)
       IN CASE r.kind = "ok" ->
                 /\ data_row_values_buf' = r.values
                 /\ row' = [len |-> r.len, frame |-> f.payload, ranges |-> r.values,
                            cyc |-> f.cyc, statement |-> cursor.statement]
                 /\ FirstReturns(RowReturned(f.cyc, cursor.statement))
                 /\ UNCHANGED phase
            [] r.kind = "err" ->
                 /\ data_row_values_buf' = r.values
                 /\ FirstReturns(ProtocolErr("unexpected end of buffer", f.cyc,
                                             cursor.statement))
                 /\ UNCHANGED <<phase, row>>
            [] r.kind = "panic" ->
                 /\ phase' = "panicked"
                 /\ UNCHANGED <<data_row_values_buf, row, ret, afterError, cursor, pc>>
    /\ UNCHANGED <<hsLog, is_ready, next_statement_id, issued, overflow_checks, transport, lenResult, out,
                   getResult>>

\* wait_for_ready: stream.read().await? on a broken transport.
WaitForReadyIoError ==
    /\ phase = "open"
    /\ pc = "wait_for_ready"
    /\ ~is_ready
    /\ transport = "broken"
    /\ FirstReturns(IoErr(NoCycle, cursor.statement))
    /\ UNCHANGED <<phase, hsLog, connVars, streamVars, row, issued,
                   overflow_checks, transport, lenResult, out, getResult>>

\* first(): stream.flush().await? on a broken transport returns the error
\* before is_ready is touched; nothing reaches the wire.
FirstFlushIoError ==
    /\ phase = "open"
    /\ pc = "flush"
    /\ transport = "broken"
    /\ FirstReturns(IoErr(NoCycle, cursor.statement))
    /\ UNCHANGED <<phase, hsLog, connVars, streamVars, row, issued,
                   overflow_checks, transport, lenResult, out, getResult>>

\* first(), the read loop: stream.read().await? on a broken transport.
FirstReadIoError ==
    /\ phase = "open"
    /\ pc = "read"
    /\ transport = "broken"
    /\ FirstReturns(IoErr(NoCycle, cursor.statement))
    /\ UNCHANGED <<phase, hsLog, connVars, streamVars, row, issued,
                   overflow_checks, transport, lenResult, out, getResult>>

\* ------------------------------------------- connection.rs: close

\* terminate(stream): the statement that follows each of its statements.
TerminateNext_ShutdownBeforeFlush(step) ==
    CASE step = "write" -> "shutdown"
      [] step = "shutdown" -> "flush"
      [] step = "flush" -> "idle"

TerminateNext(step) ==
    CASE step = "write" -> "flush"
      [] step = "flush" -> "shutdown"
      [] step = "shutdown" -> "idle"

\* terminate() returns: the future of close() resolves, the stream it owned
\* is dropped.
TerminateReturns(result) ==
    /\ phase' = "closed"
    /\ ret' = result

\* Connection::close(self): the connection is moved into the call, so it
\* takes a connection nothing borrows; terminate() then writes Terminate.
Close ==
    /\ phase = "open"
    /\ ~Borrowed
    /\ phase' = "closing"
    /\ wbuf' = Append(wbuf, Terminate)
    /\ pc' = TerminateNext("write")
    /\ UNCHANGED <<hsLog, lastTag, lastMsg, connVars, wire, inbox, buffer, cursor,
                   row, ret, afterError, issued, overflow_checks, transport,
                   lenResult, out, getResult, sent>>

\* terminate(): stream.flush().await? puts the write buffer on the wire; on
\* a broken transport `?` returns the error and shutdown() is not reached.
TerminateFlush ==
    /\ phase = "closing"
    /\ pc = "flush"
    /\ IF transport = "up"
         THEN /\ wire' = wire \o wbuf
              /\ wbuf' = <<>>
              /\ pc' = TerminateNext("flush")
              /\ IF TerminateNext("flush") = "idle"
                   THEN TerminateReturns(Closed)
                   ELSE UNCHANGED <<phase, ret>>
         ELSE /\ TerminateReturns(IoErr(NoCycle, -1))
              /\ pc' = "idle"
              /\ UNCHANGED <<wire, wbuf>>
    /\ UNCHANGED <<hsLog, lastTag, lastMsg, connVars, inbox, buffer, cursor, row,
                   afterError, issued, overflow_checks, transport, lenResult,
                   out, getResult, sent>>

\* terminate(): stream.shutdown()? closes the transport.
TerminateShutdown ==
    /\ phase = "closing"
    /\ pc = "shutdown"
    /\ transport' = "shutdown"
    /\ pc' = TerminateNext("shutdown")
    /\ IF TerminateNext("shutdown") = "idle"
         THEN TerminateReturns(Closed)
         ELSE UNCHANGED <<phase, ret>>
    /\ UNCHANGED <<hsLog, connVars, streamVars, cursor, row, afterError, issued,
                   overflow_checks, lenResult, out, getResult>>

\* ------------------------------------------------------------- row.rs

\* PgRow::try_get(index): DataRow::get on the connection's buffer and index.
TryGet ==
    \E index \in 0..MaxIndex :
        /\ phase = "open"
        /\ row # NoRow
        /\ LET v == DataRowGet(buffer, data_row_values_buf, index)
           IN /\ getResult' = [index |-> index, value |-> v]
              /\ phase' = IF v = GetPanic THEN "panicked" ELSE phase
        /\ UNCHANGED <<hsLog, connVars, streamVars, cursor, pc, row, ret,
                       afterError, issued, overflow_checks, transport, lenResult, out>>

\* PgRow::len: `self.data.len()` is commented out and the body is the
\* literal 0.
PgRowLen(r) == 0

\* Row::is_empty, the default method of the trait: self.len() == 0.
RowIsEmpty(r) == PgRowLen(r) = 0

\* row.len() and row.is_empty() are called on the live row.
RowLen ==
    /\ phase = "open"
    /\ row # NoRow
    /\ lenResult' = [len |-> PgRowLen(row), is_empty |-> RowIsEmpty(row)]
    /\ UNCHANGED <<phase, hsLog, connVars, streamVars, cursor, pc, row, ret,
                   afterError, issued, overflow_checks, transport, out,
                   getResult>>

\* The PgRow is dropped; the connection is free again.
DropRow ==
    /\ phase = "open"
    /\ row # NoRow
    /\ row' = NoRow
    /\ getResult' = NoGet
    /\ lenResult' = NoLen
    /\ UNCHANGED <<phase, hsLog, connVars, streamVars, cursor, pc, ret,
                   afterError, issued, overflow_checks, transport, out>>

\* -------------------------------------------------------------- server

\* The rows a server sends in the connection model.
ServerRows ==
    {RowInput(<<<<49>>, Null>>, 0, <<>>), RowInput(<<<<50, 51>>>>, 0, <<>>)}

\* The frames (tags) a server answers one Sync with; 68 (DataRow) carries a
\* row of ServerRows.
ResponseScripts ==
    { <<49, 50, 68, 67, 90>>,      \* one row
      <<49, 50, 67, 90>>,          \* no row
      <<69, 90>>,                  \* ErrorResponse
      <<49, 50, 73, 90>> }         \* EmptyQueryResponse, a tag the decoder lacks

\* The server processes the next Parse, Bind, Execute, Sync on the wire and
\* sends its response, ReadyForQuery last.
ServerAnswers(scripts) ==
    /\ phase = "open"
    /\ Len(wire) >= 4
    /\ wire[4] = Sync
    /\ \E script \in scripts, input \in ServerRows :
          inbox' = inbox \o
              [i \in 1..Len(script) |-> Frame(script[i], input, wire[1].statement)]
    /\ wire' = SubSeq(wire, 5, Len(wire))
    /\ UNCHANGED <<phase, hsLog, lastTag, lastMsg, connVars, wbuf, buffer, cursor,
                   pc, row, ret, afterError, issued, overflow_checks, transport, lenResult, out, getResult,
                   sent>>

ServerRespond == ServerAnswers(ResponseScripts)

\* Answers to one Sync that end in their one ReadyForQuery without a
\* completion, row or error frame before it.
ReadyOnlyScripts == { <<90>>, <<49, 50, 90>> }

ServerRespondReadyOnly == ServerAnswers(ReadyOnlyScripts)

\* The transport fails: from now on every read and flush is an I/O error.
TransportBreaks ==
    /\ phase \in {"open", "closing"}
    /\ transport = "up"
    /\ transport' = "broken"
    /\ UNCHANGED <<phase, hsLog, connVars, streamVars, cursor, pc, row, ret,
                   afterError, issued, overflow_checks, lenResult, out, getResult>>

\* ---------------------------------------------------------- specification

Next ==
    \/ ExecuteQuery
    \/ ExecuteNoArguments
    \/ DropCursor
    \/ FirstCall
    \/ WaitForReadySkip
    \/ WaitForReadyRead
    \/ FirstFlush
    \/ FirstSkip
    \/ FirstReadError
    \/ FirstUnexpected
    \/ FirstDataRow
    \/ TryGet
    \/ RowLen
    \/ DropRow
    \/ WaitForReadyIoError
    \/ FirstFlushIoError
    \/ FirstReadIoError
    \/ Close
    \/ TerminateFlush
    \/ TerminateShutdown
    \/ ServerRespond
    \/ TransportBreaks

Spec == Init /\ [][Next]_vars

\* The startup handshake: StartupMessage is written and flushed, and the
\* server sends a stream of frames: Authentication(Ok), BackendKeyData and
\* ParameterStatus frames in any number and order, then a frame of any tag
\* (or an Authentication request for a password), and sometimes one more.
StartupLoopers == {AuthFrame(0), PlainFrame(75, NoCycle), PlainFrame(83, NoCycle)}

StartupStreams ==
    LET heads == UNION {[1..k -> StartupLoopers] : k \in 0..MaxStartupFrames}
        any == {PlainFrame(tag, NoCycle) : tag \in Bytes \ {82}}
                 \cup {AuthFrame(0), AuthFrame(3), AuthFrame(5)}
        ends == {PlainFrame(90, NoCycle), PlainFrame(68, NoCycle),
                 PlainFrame(69, NoCycle)}
    IN {h \o <<f>> : h \in heads, f \in any}
         \cup {h \o <<f, PlainFrame(83, NoCycle)>> : h \in heads, f \in ends}

InitStartup ==
    /\ phase = "startup"
    /\ hsLog = <<>>
    /\ lastTag = NoTag
    /\ lastMsg = ""
    /\ is_ready = FALSE
    /\ next_statement_id = 0
    /\ data_row_values_buf = <<>>
    /\ wbuf = <<>>
    /\ wire = <<>>
    /\ inbox \in StartupStreams
    /\ buffer = <<>>
    /\ cursor = NoCursor
    /\ pc = "idle"
    /\ row = NoRow
    /\ ret = Pending
    /\ afterError = FALSE
    /\ issued = {}
    /\ overflow_checks = TRUE
    /\ getResult = NoGet
    /\ sent = NoInput
    /\ transport = "up"
    /\ lenResult = NoLen
    /\ out = <<>>

NextStartup ==
    \/ StartupReadError
    \/ StartupAuthentication
    \/ StartupInformational
    \/ StartupReadyForQuery
    \/ StartupUnexpected

SpecStartup == InitStartup /\ [][NextStartup]_vars

\* The decoding of one DataRow frame: a connection whose first() is in its
\* read loop, the server having sent one DataRow frame of RowInputs; the
\* scratch index is empty or still holds the ranges of an earlier row.
InitRow ==
    /\ phase = "open"
    /\ hsLog = <<>>
    /\ lastTag = 50
    /\ lastMsg = "BindComplete"
    /\ is_ready = FALSE
    /\ next_statement_id = 2
    /\ data_row_values_buf \in {<<>>, <<None, Some(10, 11), Some(15, 15)>>}
    /\ wbuf = <<>>
    /\ wire = <<>>
    /\ \E input \in RowInputs : inbox = <<Frame(68, input, 1)>>
    /\ buffer = <<>>
    /\ cursor = [statement |-> 1]
    /\ pc = "read"
    /\ row = NoRow
    /\ ret = Connected
    /\ afterError = FALSE
    /\ issued = {1}
    /\ overflow_checks \in BOOLEAN
    /\ getResult = NoGet
    /\ sent = NoInput
    /\ transport = "up"
    /\ lenResult = NoLen
    /\ out = <<>>

NextRow ==
    \/ FirstDataRow
    \/ TryGet
    \/ RowLen
    \/ DropRow

SpecRow == InitRow /\ [][NextRow]_vars

\* The read loop of first() on its own: a connection whose first() has
\* flushed cycle 1 and is reading, and a server stream of ParseComplete and
\* BindComplete frames in any number and order, then one frame of another
\* kind, then ReadyForQuery.
FirstDeciders ==
    {DataRowFrame(input, 1) : input \in ServerRows}
      \cup {PlainFrame(tag, 1) : tag \in {67, 69, 78, 84, 90, 110, 115, 73}}

FirstStreams ==
    LET skipped == {PlainFrame(49, 1), PlainFrame(50, 1)}
        heads == UNION {[1..k -> skipped] : k \in 0..MaxSkips}
    IN {h \o <<f, PlainFrame(90, 1)>> : h \in heads, f \in FirstDeciders}

InitFirst ==
    /\ phase = "open"
    /\ hsLog = <<>>
    /\ lastTag = 90
    /\ lastMsg = "ReadyForQuery"
    /\ is_ready = FALSE
    /\ next_statement_id = 2
    /\ data_row_values_buf = <<>>
    /\ wbuf = <<>>
    /\ wire = <<>>
    /\ inbox \in FirstStreams
    /\ buffer = <<>>
    /\ cursor = [statement |-> 1]
    /\ pc = "read"
    /\ row = NoRow
    /\ ret = Connected
    /\ afterError = FALSE
    /\ issued = {1}
    /\ overflow_checks \in BOOLEAN
    /\ getResult = NoGet
    /\ sent = NoInput
    /\ transport = "up"
    /\ lenResult = NoLen
    /\ out = <<>>

NextFirst ==
    \/ FirstSkip
    \/ FirstReadError
    \/ FirstUnexpected
    \/ FirstDataRow

SpecFirst == InitFirst /\ [][NextFirst]_vars

\* ------------------------------------------- protocol/ssl_request.rs

\* buf.put_u32::<NetworkEndian>(n): the four bytes of n, most significant
\* first.
PutU32(n) ==
    <<ByteAt(n, 16777216), ByteAt(n, 65536), ByteAt(n, 256), ByteAt(n, 1)>>

\* a << k and a | b on u32 values that stay below 2^31.
ShiftLeft(a, k) == a * 2^k

RECURSIVE BitOr(_, _)
BitOr(a, b) ==
    IF a = 0 THEN b
    ELSE IF b = 0 THEN a
    ELSE 2 * BitOr(a \div 2, b \div 2)
           + (IF a % 2 = 1 \/ b % 2 = 1 THEN 1 ELSE 0)

\* packet length: 8 bytes including self
SslRequestLength == 8
\* 1234 in high 16 bits, 5679 in low 16
SslRequestCode == BitOr(ShiftLeft(1234, 16), 5679)

SslRequestEncode_CodeFirst(buf) ==
    buf \o PutU32(SslRequestCode) \o PutU32(SslRequestLength)

\* SslRequest::encode(buf)
SslRequestEncode(buf) ==
    buf \o PutU32(SslRequestLength) \o PutU32(SslRequestCode)

\* SslRequest::encode is called on the output buffer.
SslRequestEncodeCall ==
    /\ phase = "connecting"
    /\ Len(out) <= MaxPrefix
    /\ out' = SslRequestEncode(out)
    /\ UNCHANGED <<phase, hsLog, connVars, streamVars, cursor, pc, row, ret,
                   afterError, issued, overflow_checks, transport, lenResult,
                   getResult>>

\* The bytes a Vec<u8> may hold before the request is encoded into it.
PrefixBytes == {0, 8, 47, 255}

\* Before the handshake: a buffer of any content, nothing else yet.
InitSsl ==
    /\ phase = "connecting"
    /\ hsLog = <<>>
    /\ lastTag = NoTag
    /\ lastMsg = ""
    /\ is_ready = FALSE
    /\ next_statement_id = 0
    /\ data_row_values_buf = <<>>
    /\ wbuf = <<>>
    /\ wire = <<>>
    /\ inbox = <<>>
    /\ buffer = <<>>
    /\ cursor = NoCursor
    /\ pc = "idle"
    /\ row = NoRow
    /\ ret = Pending
    /\ afterError = FALSE
    /\ issued = {}
    /\ overflow_checks = TRUE
    /\ getResult = NoGet
    /\ sent = NoInput
    /\ transport = "up"
    /\ lenResult = NoLen
    /\ out \in UNION {[1..k -> PrefixBytes] : k \in 0..MaxPrefix}

NextSsl == SslRequestEncodeCall

SpecSsl == InitSsl /\ [][NextSsl]_vars

\* -------------------------------------------------------------- properties

\* C1: the messages of a query cycle are not put on the wire until the
\* ReadyForQuery of every earlier cycle has been read, so at any moment at
\* most one cycle has its Sync sent and its ReadyForQuery still unread
\* (cursors dropped without first() included).
C1_ReadyGate == NumSync(wire) + NumReady(inbox) <= 1

\* The handshake log is Authentication(Ok) followed by BackendKeyData and
\* ParameterStatus frames only.
AuthThenInformational(log) ==
    /\ Len(log) >= 1
    /\ log[1] = "Authentication(Ok)"
    /\ \A i \in 2..Len(log) : log[i] \in {"BackendKeyData", "ParameterStatus"}

C2_Succeeds ==
    /\ ( /\ Len(hsLog) >= 2
         /\ AuthThenInformational(SubSeq(hsLog, 1, Len(hsLog) - 1))
         /\ hsLog[Len(hsLog)] = "ReadyForQuery" )
       => /\ phase = "open"
          /\ ret = Connected
          /\ is_ready = TRUE
          /\ next_statement_id = 1
          /\ data_row_values_buf = <<>>
    /\ ( /\ phase = "startup"
         /\ hsLog = <<>> \/ AuthThenInformational(hsLog)
         /\ inbox # <<>> )
       => ENABLED NextStartup

\* C2: on a server stream of Authentication(Ok), then BackendKeyData and
\* ParameterStatus frames in any number and order, then ReadyForQuery, the
\* handshake ends successfully in a connection with is_ready true,
\* next_statement_id 1 and an empty scratch index, and it reads no frame
\* after that ReadyForQuery.
C2_StartupSuccess ==
    /\ []C2_Succeeds
    /\ [][phase = "open" => inbox' = inbox]_vars

C2_Witness ==
    /\ phase = "open"
    /\ hsLog = <<"Authentication(Ok)", "ParameterStatus", "BackendKeyData",
                 "ReadyForQuery">>
    /\ is_ready
    /\ inbox # <<>>

\* The message kinds that are none of Authentication, BackendKeyData,
\* ParameterStatus and ReadyForQuery.
UnexpectedKinds ==
    {"Response", "DataRow", "CommandComplete", "NotificationResponse",
     "ParseComplete", "BindComplete", "CloseComplete", "NoData",
     "PortalSuspended", "ParameterDescription", "RowDescription"}

C3_Fails ==
    \A i \in 1..Len(hsLog) :
        hsLog[i] \in UnexpectedKinds
          => /\ i = Len(hsLog)
             /\ phase = "failed"
             /\ ret.tag = "Err"
             /\ ret.kind = "Protocol"

\* C3: a frame of any other kind than Authentication, BackendKeyData,
\* ParameterStatus and ReadyForQuery, read before ReadyForQuery, ends the
\* handshake at that frame with a protocol error; nothing further is read and
\* no connection is produced.
C3_StartupFailure ==
    /\ []C3_Fails
    /\ [][phase = "failed" => inbox' = inbox /\ phase' = "failed"]_vars

C3_Witness ==
    /\ phase = "failed"
    /\ hsLog = <<"Authentication(Ok)", "ParameterStatus", "DataRow">>
    /\ ret.kind = "Protocol"
    /\ inbox # <<>>

\* What get(i) is to return for a column of a valid row.
ExpectedGet(c) == IF c = Null THEN GetNone ELSE GetSome(c)

\* C4: for every valid DataRow payload, decoding succeeds and get(i), for
\* each i below the column count, returns exactly the bytes of column i (an
\* empty slice for an empty column) and null exactly for the columns whose
\* length field was -1.
C4_DecodeThenGet ==
    (lastTag = 68 /\ buffer = Payload(sent) /\ ValidInput(sent))
      => /\ ret.tag = "Row"
         /\ Len(data_row_values_buf) = Len(sent.cols)
         /\ row # NoRow => row.len = Len(sent.cols)
         /\ (getResult # NoGet /\ getResult.index < Len(sent.cols))
              => getResult.value = ExpectedGet(sent.cols[getResult.index + 1])

C4_Witness ==
    /\ row # NoRow
    /\ sent = RowInput(<<Null, <<>>, <<50, 51>>>>, 0, <<>>)
    /\ getResult = [index |-> 2, value |-> GetSome(<<50, 51>>)]

\* C5: decoding a malformed DataRow payload (too short for its column count
\* and lengths, or with a column length below -1) always ends in a protocol
\* error returned to the caller, never in a panic or an overflow of the u32
\* range offsets.
C5_MalformedIsError ==
    (lastTag = 68 /\ buffer = Payload(sent) /\ MalformedInput(sent))
      => /\ phase # "panicked"
         /\ ret.tag = "Err"
         /\ ret.kind = "Protocol"

C6_RowIsOfItsFrame ==
    row # NoRow
      => /\ buffer = row.frame
         /\ data_row_values_buf = row.ranges
         /\ getResult # NoGet
              => getResult.value = DataRowGet(row.frame, row.ranges, getResult.index)

\* C6: while a Row is alive no operation on the connection reads another
\* frame or rewrites the read buffer or the scratch index, so every try_get
\* on the live Row returns bytes of the DataRow frame that produced it.
C6_RowKeepsBuffer ==
    /\ []C6_RowIsOfItsFrame
    /\ [][row # NoRow => /\ buffer' = buffer
                         /\ data_row_values_buf' = data_row_values_buf
                         /\ Len(inbox') >= Len(inbox)]_vars

C6_Witness ==
    /\ row # NoRow
    /\ inbox # <<>>
    /\ wbuf = <<>>
    /\ getResult = [index |-> 0, value |-> GetSome(<<49>>)]

\* C7: statement ids are never reused on a connection, however many execute
\* calls are made: each call gets an id different from all earlier ones, and
\* the ids are assigned in strictly increasing order starting at 1.
C7_IdsNeverReused ==
    [][(cursor' # cursor /\ cursor' # NoCursor)
         => /\ cursor'.statement \notin issued
            /\ \A j \in issued : cursor'.statement > j
            /\ issued = {} => cursor'.statement = 1]_vars

\* The backend tag table: R, K, S, Z, T, D, C, A, 1, 2, 3, n, s, t, N, E.
TagTable ==
    (82 :> "Authentication") @@ (75 :> "BackendKeyData")
    @@ (83 :> "ParameterStatus") @@ (90 :> "ReadyForQuery")
    @@ (84 :> "RowDescription") @@ (68 :> "DataRow")
    @@ (67 :> "CommandComplete") @@ (65 :> "NotificationResponse")
    @@ (49 :> "ParseComplete") @@ (50 :> "BindComplete")
    @@ (51 :> "CloseComplete") @@ (110 :> "NoData")
    @@ (115 :> "PortalSuspended") @@ (116 :> "ParameterDescription")
    @@ (78 :> "Response") @@ (69 :> "Response")

\* C8: every tag of the backend tag table is decoded to the message kind the
\* table names (N and E both to Response), and every other byte value gives
\* a protocol error, not a message kind.
C8_TagTable ==
    lastTag # NoTag
      => IF lastTag \in DOMAIN TagTable
           THEN lastMsg = TagTable[lastTag]
           ELSE /\ lastMsg = UnknownMessage
                /\ phase = "failed"
                /\ ret.tag = "Err"

C8_Witness ==
    /\ lastTag = 78
    /\ lastMsg = "Response"
    /\ phase = "failed"

\* C9: after the server answered a query cycle with an ErrorResponse, a later
\* execute + first drains the frames of the failed cycle up to and including
\* its ReadyForQuery before it sends the new cycle, and its result is taken
\* from the response frames of the new cycle.
C9_UsableAfterError ==
    /\ (pc = "read" /\ ret.tag = "Err" /\ ret.what = "Response")
         => \A i \in 1..Len(inbox) : inbox[i].cyc # ret.cyc
    /\ (afterError /\ ret.tag \in {"Row", "Err"})
         => ret.cyc = ret.statement

\* C10: a server ErrorResponse during a query and an Authentication request
\* other than Ok during startup are each reported with an error kind that is
\* not the protocol-violation kind of an unexpected message.
C10_ErrorKindsDistinct ==
    /\ (ret.tag = "Err" /\ lastTag = 69 /\ ret.what = "Response")
         => ret.kind # "Protocol"
    /\ (ret.tag = "Err" /\ ret.what = "requested unsupported authentication")
         => ret.kind # "Protocol"

\* Terminate is written once, as the last message of the connection.
TerminateIsLast(msgs) ==
    \A i \in 1..Len(msgs) : msgs[i] = Terminate => i = Len(msgs)

C11_Order ==
    /\ TerminateIsLast(wbuf)
    /\ TerminateIsLast(wire)
    /\ transport = "shutdown"
         => /\ wbuf = <<>>
            /\ wire # <<>>
            /\ wire[Len(wire)] = Terminate
    /\ (phase = "closed" /\ ret = Closed) => transport = "shutdown"

C11_NothingAfterClose ==
    phase \in {"closing", "closed"}
      => /\ phase' \in {"closing", "closed"}
         /\ inbox' = inbox
         /\ cursor' = cursor
         /\ issued' = issued
         /\ next_statement_id' = next_statement_id
         /\ (phase = "closed" => (wbuf' = wbuf /\ wire' = wire))

\* C11: close writes Terminate, flushes it and then shuts the transport down,
\* in that order, and close is terminal: once it has begun no execute is
\* issued and no frame is read, and once it has returned nothing is written
\* or flushed and the connection is never open again.
C11_CloseIsTerminal ==
    /\ []C11_Order
    /\ [][C11_NothingAfterClose]_vars

C11_Witness ==
    /\ phase = "closed"
    /\ ret = Closed
    /\ transport = "shutdown"
    /\ wire = <<Terminate>>
    /\ inbox # <<>>


C12_AbortsBeforeWriting ==
    (ret'.tag = "Panic" /\ ret.tag # "Panic")
      => /\ phase' = "panicked"
         /\ wbuf' = wbuf
         /\ wire' = wire
         /\ next_statement_id' = next_statement_id
         /\ issued' = issued
         /\ cursor' = cursor

\* C12: execute with arguments None panics at arguments.unwrap(), before any
\* of Parse, Bind, Execute, Sync is written and before a statement id is
\* allocated: the write buffer, the wire and the id counter are unchanged.
C12_NoArgumentsFailsLoudly == [][C12_AbortsBeforeWriting]_vars

C12_Witness ==
    /\ phase = "panicked"
    /\ ret.tag = "Panic"
    /\ Len(wbuf) = 4
    /\ next_statement_id = 2


\* C13: Row::len returns the number of columns of the DataRow that produced
\* the row, and is_empty is true exactly when that number is zero.
C13_LenIsColumnCount ==
    (row # NoRow /\ lenResult # NoLen)
      => /\ lenResult.len = DataRowLen(row)
         /\ lenResult.len = Len(sent.cols)
         /\ lenResult.is_empty = (DataRowLen(row) = 0)


C14_AppendsMagicFrame ==
    out' # out => out' = out \o <<0, 0, 0, 8, 4, 210, 22, 47>>

\* C14: encoding SSLRequest appends exactly the 8 bytes 00 00 00 08 04 D2 16
\* 2F to the output buffer, a big-endian length of 8 and the big-endian code
\* (1234 << 16) | 5679, and leaves the bytes already in the buffer unchanged.
C14_SslRequestBytes == [][C14_AppendsMagicFrame]_vars

C14_Witness == out = <<255, 8, 0, 0, 0, 8, 4, 210, 22, 47>>


\* C15: in every reachable state the ready flag is false if and only if a
\* query cycle has been sent (its Sync flushed) and the ReadyForQuery that
\* ends it has not been read yet.
C15_ReadyIffNoneOutstanding ==
    phase = "open"
      => (is_ready = FALSE <=> NumSync(wire) + NumReady(inbox) >= 1)


\* The messages of a sequence from position i on.
From(msgs, i) == SubSeq(msgs, i, Len(msgs))

\* A sequence of whole query cycles, each Parse, Bind, Execute, Sync with
\* one statement id, an unnamed portal, binary formats and row limit 0,
\* with at most a Terminate after the last.
RECURSIVE WholeCycles(_)
WholeCycles(msgs) ==
    \/ msgs = <<>>
    \/ msgs = <<Terminate>>
    \/ /\ Len(msgs) >= 4
       /\ msgs[1].type = "Parse"
       /\ msgs[2] = [type |-> "Bind", portal |-> "", statement |-> msgs[1].statement,
                     formats |-> <<"Binary">>, result_formats |-> <<"Binary">>]
       /\ msgs[3] = [type |-> "Execute", portal |-> "", limit |-> 0]
       /\ msgs[4] = [type |-> "Sync"]
       /\ WholeCycles(From(msgs, 5))

C16_Buffers == WholeCycles(wbuf) /\ WholeCycles(wire)

C16_ExecuteStep ==
    /\ (cursor' # cursor /\ cursor' # NoCursor)
         => /\ Len(wbuf') = Len(wbuf) + 4
            /\ SubSeq(wbuf', 1, Len(wbuf)) = wbuf
            /\ WholeCycles(From(wbuf', Len(wbuf) + 1))
            /\ wbuf'[Len(wbuf) + 1].statement = cursor'.statement
            /\ cursor'.statement = next_statement_id
            /\ cursor'.statement \notin issued
            /\ wire' = wire
            /\ inbox' = inbox
            /\ is_ready' = is_ready
            /\ transport' = transport
    /\ (Len(wire') > Len(wire) \/ (wbuf' = <<>> /\ wbuf # <<>>))
         => /\ wire' = wire \o wbuf
            /\ wbuf' = <<>>

\* C16: execute does no network I/O and waits for nothing: it only appends
\* Parse (with a fresh statement id), Bind (unnamed portal, the
\* same id, binary formats), Execute (unnamed portal, row limit 0) and Sync
\* to the write buffer, in that order; the messages of a cycle reach the wire
\* together in one flush, contiguous and in order with Sync last; and the
\* cursor carries the id of the Parse and the Bind.
C16_ExecuteOnlyBuffers ==
    /\ []C16_Buffers
    /\ [][C16_ExecuteStep]_vars


\* The kinds that end a query's response without a row.
EndOfResultsKinds == {"CommandComplete", "PortalSuspended", "NoData"}

\* C17: when the first frame of a query's response other than ParseComplete
\* and BindComplete is CommandComplete, PortalSuspended or NoData, first
\* reports end-of-results (no row), not an error.
C17_EndOfResults ==
    (phase = "open" /\ pc = "idle" /\ ret.tag \in {"Row", "End", "Err"}
       /\ ret.cyc = ret.statement /\ lastMsg \in EndOfResultsKinds)
      => ret.tag = "End"


C18_ReadStep ==
    (pc = "read" /\ inbox # <<>>)
      => LET f == Head(inbox)
             msg == MessageFromTag(f.tag)
         IN IF msg \in {"ParseComplete", "BindComplete"}
              THEN /\ inbox' = Tail(inbox)
                   /\ pc' = "read"
                   /\ <<is_ready', next_statement_id', data_row_values_buf'>>
                        = <<is_ready, next_statement_id, data_row_values_buf>>
                   /\ <<ret', cursor', row', wbuf', wire'>>
                        = <<ret, cursor, row, wbuf, wire>>
              ELSE /\ pc' = "idle"
                   /\ cursor' = NoCursor
                   /\ ret'.tag \in {"Row", "Err"}
                   /\ ret'.statement = cursor.statement
                   /\ msg = "DataRow"
                        => /\ ret'.tag = "Row"
                           /\ buffer' = f.payload
                           /\ row'.frame = f.payload
                           /\ row'.ranges = data_row_values_buf'
                           /\ row'.len = Len(f.sent.cols)
                   /\ msg # "DataRow" => (ret'.tag = "Err" /\ row' = NoRow)

\* C18: while it awaits the first row, first skips every ParseComplete and
\* BindComplete frame, in any number and order, without changing the state
\* of the connection, and the first frame of any other kind decides the
\* outcome: a DataRow is decoded in place and returned as the Row.
C18_SkipsCompletes == [][C18_ReadStep]_vars

C18_Witness ==
    /\ pc = "read"
    /\ lastMsg = "BindComplete"
    /\ Len(inbox) = 3
    /\ inbox[1].tag = 49
    /\ inbox[2].tag = 68
    /\ is_ready = FALSE
    /\ cursor = [statement |-> 1]
    /\ ret = Connected


\* C19: decoding a DataRow succeeds only when the decoder consumes exactly
\* the payload: a payload with bytes left after the last declared column,
\* like one that ends too early, is rejected with a protocol error.
C19_ExactConsumption ==
    (lastTag = 68 /\ buffer = Payload(sent)
       /\ (sent.extra # <<>> \/ sent.cut > 0))
      => /\ phase # "panicked"
         /\ ret.tag = "Err"
         /\ ret.kind = "Protocol"
         /\ row = NoRow


\* The last call on the connection returned the error of a failed read (an
\* unrecognized tag, or an I/O failure) or of a failed flush.
FatalReadError ==
    /\ ret.tag = "Err"
    /\ \/ ret.kind = "Protocol" /\ ret.what = "unknown message"
       \/ ret.kind = "Io"

\* The stream cannot deliver another frame: the transport is broken, or the
\* frame at its head has a tag the decoder does not know.
StreamFailed ==
    \/ transport = "broken"
    \/ inbox # <<>> /\ NextMsg = UnknownMessage

\* A failed read leaves the stream failed.
C20_FailureSticks ==
    (phase = "open" /\ FatalReadError) => StreamFailed

\* On a failed stream no step takes a frame off the stream, no row is
\* handed out, the stream stays failed, and a first() that returns returns
\* an error.
C20_NoFurtherUse ==
    (phase = "open" /\ StreamFailed) =>
        /\ Len(inbox') >= Len(inbox)
        /\ SubSeq(inbox', 1, Len(inbox)) = inbox
        /\ (ret' # ret => ret'.tag # "Row")
        /\ (row' # row => row' = NoRow)
        /\ (phase' = "open" => StreamFailed')
        /\ (phase' = "open" /\ pc # "idle" /\ pc' = "idle") => ret'.tag = "Err"

C21_AuthBeforeReady ==
    phase = "open" => \E i \in 1..Len(hsLog) : hsLog[i] = "Authentication(Ok)"


\* C22: the Row returned by a cursor's first belongs to that cursor's own
\* query cycle: the DataRow decoded by first is a response frame of the cycle
\* whose Parse carried the cursor's statement id, never a frame of an earlier
\* cycle (cursors dropped without being consumed included).
C22_RowOfOwnCycle ==
    /\ ret.tag = "Row" => ret.cyc = ret.statement
    /\ row # NoRow => row.cyc = row.statement


\* ------------------------------------------------- first() under fairness

\* first() between its call and its return.
FirstRunning == phase = "open" /\ pc \in {"wait_for_ready", "flush", "read"}

\* One step of a first() that is being polled.
FirstStep ==
    \/ WaitForReadySkip
    \/ WaitForReadyRead
    \/ FirstFlush
    \/ FirstSkip
    \/ FirstReadError
    \/ FirstUnexpected
    \/ FirstDataRow

\* The server answers the oldest Sync on the wire.
ServerStep == ServerRespond \/ ServerRespondReadyOnly

\* The calls on an open connection whose transport stays open, with a server
\* that answers each Sync it receives with frames ending in one
\* ReadyForQuery.
NextLive ==
    \/ ExecuteQuery
    \/ ExecuteNoArguments
    \/ DropCursor
    \/ FirstCall
    \/ FirstStep
    \/ TryGet
    \/ RowLen
    \/ DropRow
    \/ Close
    \/ TerminateFlush
    \/ TerminateShutdown
    \/ ServerStep

\* A first() that has been called is polled until it returns, and the
\* server answers every Sync it has received.
SpecLive ==
    /\ Init
    /\ [][NextLive]_vars
    /\ WF_vars(FirstStep)
    /\ WF_vars(ServerStep)

\* C23: every call to first eventually returns (a row or an error), provided
\* the transport stays open and the server answers each received Sync with a
\* finite sequence of frames ending in exactly one ReadyForQuery: the drain
\* loop of wait_for_ready never waits for a ReadyForQuery that has already
\* been consumed or whose Sync has not been sent.
C23_FirstReturns == FirstRunning ~> ~FirstRunning


\* C24: try_get with a column index greater than or equal to the row's
\* column count returns an error value or null to the caller: it never
\* crashes and never returns bytes of another column. (try_get has no error
\* of its own to return: the only result that is neither a crash nor bytes
\* is null.)
C24_OutOfRangeIsError ==
    (row # NoRow /\ getResult # NoGet /\ getResult.index >= row.len)
      => /\ phase # "panicked"
         /\ getResult.value = GetNone

====
